---- MODULE Spec2Model ----
(***************************************************************************)
(* visibility-listener: the state tracker (src/src/visibilityStateListener *)
(* .ts, lines 1-263), its event emitter (src/src/eventEmitter.ts) and the  *)
(* vendor-prefix probe (src/src/utils.ts), together with the part of the   *)
(* host (window, document and their listener lists) that the tracker       *)
(* calls.                                                                  *)
(*                                                                         *)
(* Every operation of the tracker is an operator on a "world" record w,    *)
(* the mutable things one call can touch; an action of the model applies   *)
(* one operator to the current world and commits the result.  Subscriber   *)
(* callbacks run inside emit, so a callback that calls pause() or          *)
(* destroy() is part of the host signal's action.                          *)
(***************************************************************************)
EXTENDS Naturals, Integers, Sequences, FiniteSets, TLC

VARIABLES
    cachedPrefix, \* utils.ts: the module-level prefix cache
    prefixLog,    \* history: whether the last findPrefix call probed its
                  \* document, and the writes of the cache since the last reset
    opts,         \* the options the tracker was constructed with: [update |-> name]
    win,          \* the resolved window handle
    doc,          \* the resolved document handle
    native,       \* the host's listener lists, in registration order
    state,        \* the tracker's VisibilityState record
    strategy,     \* the strategy chosen at construction
    eventNames,   \* [update |-> the channel name]
    events,       \* the emitter's events record: name -> sequence of listeners
    now,          \* the host clock read by Date.now()
    ret,          \* what the last call returned
    op,           \* the last operation
    hostCalls,    \* the host API calls the last operation made
    handled,      \* the values the last operation passed to updateState
    invoked,      \* the subscriber invocations the last operation made
    published,    \* history: every emit call, [event, args]
    lifecycle,    \* history: whether destroy() / destroy() then start() came last
    peer          \* a second tracker built on the same window and document:
                  \* [state, events], its listeners being in native

vars == <<cachedPrefix, prefixLog, opts, win, doc, native, state, strategy, eventNames, events,
          now, ret, op, hostCalls, handled, invoked, published, lifecycle, peer>>

(***************************************************************************)
(* Bounds of the model.                                                    *)
(***************************************************************************)
MaxCount == 2    \* host signals are delivered while stateChangeCount < MaxCount
MaxClock == 1    \* the clock advances up to MaxClock
MaxSubs == 2     \* at most MaxSubs subscriptions are made
MaxPrefixes == 2 \* a document exposes at most MaxPrefixes prefixed hidden properties

(***************************************************************************)
(* JavaScript values.                                                      *)
(***************************************************************************)
Null == "<null>"
Undefined == "<undefined>"
NullTime == -1

Falsy(x) == x \in {"", Null, Undefined}

Range(s) == {s[i] : i \in 1..Len(s)}

ErrorCodes == [INVALID_GLOBALS |-> "INVALID_GLOBALS"]

(***************************************************************************)
(* The host.  A handle is a record: the names of the properties the object *)
(* exposes, the value of its visibility property and what hasFocus()       *)
(* answers when the tracker is constructed.                                *)
(***************************************************************************)
NoHandle == [present |-> FALSE, props |-> {}, vis |-> Undefined, focused |-> FALSE]

Handle(props, vis, focused) ==
    [present |-> TRUE, props |-> props, vis |-> vis, focused |-> focused]

\* 'name in d'
In(name, d) == name \in d.props

\* d[name]: every visibility property of a document holds the same value
Read(d, name) == IF In(name, d) THEN d.vis ELSE Undefined

\* the visibility values a host reports; "" is an empty read
Values == {"visible", "hidden", ""}

DomDocument == {"hidden", "visibilityState", "addEventListener",
                "removeEventListener", "hasFocus"}
WebkitDocument == {"webkitHidden", "webkitVisibilityState", "addEventListener",
                   "removeEventListener", "hasFocus"}
OldDocument == {"addEventListener", "removeEventListener", "hasFocus"}
LegacyDocument == {"attachEvent", "detachEvent"}
DomWindow == {"addEventListener", "removeEventListener"}
LegacyWindow == {}

\* the hosts: a document, the window that comes with it, and what the prefix
\* cache holds when the tracker is constructed (nothing, or the prefix an
\* earlier findPrefix call of the process left in it)
Hosts == {<<DomDocument, DomWindow, Null>>, <<DomDocument, DomWindow, "webkit">>,
          <<WebkitDocument, DomWindow, Null>>,
          <<OldDocument, DomWindow, Null>>, <<LegacyDocument, LegacyWindow, Null>>}

(***************************************************************************)
(* utils.ts                                                                *)
(***************************************************************************)
\* the prefixes in another order
availablePrefixesReordered == <<"ms", "webkit", "o", "moz", "khtml">>

availablePrefixes == <<"webkit", "ms", "o", "moz", "khtml">>

\* availablePrefixes.find(p => p + 'Hidden' in d), from index i on
RECURSIVE find(_, _)
find(d, i) ==
    IF i > Len(availablePrefixes) THEN Undefined
    ELSE IF In(availablePrefixes[i] \o "Hidden", d) THEN availablePrefixes[i]
    ELSE find(d, i + 1)

\* findPrefix as it was before the cache: every call probes its document
findPrefixUncached(d, c) ==
    LET f == find(d, 1)
        prefix == IF f = Undefined THEN "" ELSE f
    IN [prefix |-> prefix, cache |-> prefix, probed |-> TRUE, wrote |-> TRUE]

\* findPrefix(d) with the cache holding c: the value returned, the cache
\* after, whether d was probed and whether the cache was written
findPrefix(d, c) ==
    IF c # Null THEN [prefix |-> c, cache |-> c, probed |-> FALSE, wrote |-> FALSE]
    ELSE LET f == find(d, 1)
             prefix == IF f = Undefined THEN "" ELSE f
         IN [prefix |-> prefix, cache |-> prefix, probed |-> TRUE, wrote |-> TRUE]

\* resetPrefixCache(): the cache after
resetPrefixCache == Null

(***************************************************************************)
(* createVisibilityStateListener: construction                             *)
(***************************************************************************)
InitialState ==
    [error |-> Null, started |-> FALSE, isPaused |-> FALSE, value |-> "visible",
     prefix |-> "", visibilityProp |-> "", hiddenProp |-> "",
     lastStateChangeTime |-> NullTime, stateChangeCount |-> 0]

\* the channel name fixed to 'update', whatever the options say
updateEventNameIgnored(optUpdate) == "update"

\* opts.eventNames && opts.eventNames.update ? opts.eventNames.update : 'update'
updateEventName(optUpdate) == IF Falsy(optUpdate) THEN "update" ELSE optUpdate

\* the error recorded only when both handles are missing
withErrorBothMissing(s, w, d) ==
    IF ~w.present /\ ~d.present
    THEN [s EXCEPT !.error = ErrorCodes.INVALID_GLOBALS] ELSE s

\* lines 56-58
withError(s, w, d) ==
    IF ~w.present \/ ~d.present
    THEN [s EXCEPT !.error = ErrorCodes.INVALID_GLOBALS] ELSE s

\* lines 60-65: the prefix and the two property names
withPrefix(s, d, c) ==
    IF s.error = Null
    THEN LET p == findPrefix(d, c).prefix IN
         [s EXCEPT !.prefix = p,
                   !.hiddenProp = p \o (IF Len(p) > 0 THEN "Hidden" ELSE "hidden"),
                   !.visibilityProp =
                       p \o (IF Len(p) > 0 THEN "VisibilityState" ELSE "visibilityState")]
    ELSE s

determineStrategy(s, d) ==
    IF ~d.present THEN ""
    ELSE IF In(s.hiddenProp, d) THEN "modern"
    ELSE IF In("addEventListener", d) THEN "focus-blur"
    ELSE "focus-blur-ie"

\* lines 83-91: the seeded value
withInitialValue(s, strat, d) ==
    IF s.error = Null /\ d.present
    THEN IF strat = "modern" /\ In(s.visibilityProp, d)
         THEN [s EXCEPT !.value = IF Falsy(Read(d, s.visibilityProp)) THEN "visible"
                                   ELSE Read(d, s.visibilityProp)]
         ELSE IF In("hasFocus", d)
         THEN [s EXCEPT !.value = IF d.focused THEN "visible" ELSE "hidden"]
         ELSE s
    ELSE s

\* the tracker built against window w and document d with the cache holding c
Construct(w, d, optUpdate, c) ==
    LET s1 == withPrefix(withError(InitialState, w, d), d, c)
        strat == determineStrategy(s1, d)
    IN [state |-> withInitialValue(s1, strat, d),
        strategy |-> strat,
        eventNames |-> [update |-> updateEventName(optUpdate)],
        cache |-> IF s1.error = Null THEN findPrefix(d, c).cache ELSE c,
        probed |-> s1.error = Null /\ findPrefix(d, c).probed,
        wrote |-> s1.error = Null /\ findPrefix(d, c).wrote]

(***************************************************************************)
(* The host's listener lists.  A registration is [target, type, handler,   *)
(* capture, api]; native holds them in registration order.                 *)
(***************************************************************************)
Reg(target, type, handler, capture, api) ==
    [target |-> target, type |-> type, handler |-> handler, capture |-> capture,
     api |-> api]

HostCall(name, r) == [call |-> name, reg |-> r]

\* seq without its first element equal to x
RECURSIVE removeFirst(_, _)
removeFirst(seq, x) ==
    IF seq = <<>> THEN <<>>
    ELSE IF Head(seq) = x THEN Tail(seq)
    ELSE <<Head(seq)>> \o removeFirst(Tail(seq), x)

\* EventTarget.addEventListener: a registration with the same type, callback
\* and capture is not added twice
addEventListener(w, target, type, handler, capture) ==
    LET r == Reg(target, type, handler, capture, "dom") IN
    [w EXCEPT !.native = IF r \in Range(@) THEN @ ELSE Append(@, r),
              !.hostCalls = Append(@, HostCall("addEventListener", r))]

\* EventTarget.removeEventListener: removes the registration with the same
\* type, callback and capture
removeEventListener(w, target, type, handler, capture) ==
    LET r == Reg(target, type, handler, capture, "dom") IN
    [w EXCEPT !.native = removeFirst(@, r),
              !.hostCalls = Append(@, HostCall("removeEventListener", r))]

\* the legacy attachEvent: every call adds a registration
attachEvent(w, type, handler) ==
    LET r == Reg("document", type, handler, FALSE, "legacy") IN
    [w EXCEPT !.native = Append(@, r),
              !.hostCalls = Append(@, HostCall("attachEvent", r))]

\* the legacy detachEvent: removes one registration of the handler
detachEvent(w, type, handler) ==
    LET r == Reg("document", type, handler, FALSE, "legacy") IN
    [w EXCEPT !.native = removeFirst(@, r),
              !.hostCalls = Append(@, HostCall("detachEvent", r))]

\* calling a method the host object does not have raises a TypeError
Throw(w) == [w EXCEPT !.ret = "throw"]

(***************************************************************************)
(* The world one call of the tracker works on.                             *)
(***************************************************************************)
World ==
    [state |-> state, native |-> native, events |-> events,
     published |-> published, lifecycle |-> lifecycle,
     hostCalls |-> <<>>, handled |-> <<>>, invoked |-> <<>>, ret |-> "none",
     g |-> "pause"]

\* the world of a host event during which subscriber g makes the call c
WorldWhere(c) == [World EXCEPT !.g = c]

\* history of the lifecycle calls: destroyed from a destroy() to the next
\* start(), restarted from a start() made while destroyed to the next pause()
\* or destroy()
Called(w, name) ==
    [w EXCEPT !.lifecycle =
        IF name = "start" THEN [destroyed |-> FALSE, restarted |-> @.destroyed \/ @.restarted]
        ELSE IF name = "pause" THEN [@ EXCEPT !.restarted = FALSE]
        ELSE [destroyed |-> TRUE, restarted |-> FALSE]]

(***************************************************************************)
(* start, pause, destroy                                                   *)
(***************************************************************************)
\* the listener set added for the strategy the document calls for now
attachReprobing(w) ==
    LET now_strategy == IF w.state.error = Null THEN determineStrategy(w.state, doc) ELSE ""
    IN IF now_strategy = "modern"
       THEN IF In("addEventListener", doc)
            THEN addEventListener(w, "document", w.state.prefix \o "visibilitychange",
                                  "onChange", FALSE)
            ELSE Throw(w)
       ELSE IF now_strategy = "focus-blur"
       THEN IF In("addEventListener", win)
            THEN addEventListener(addEventListener(w, "window", "focus", "onFocus", TRUE),
                                  "window", "blur", "onBlur", TRUE)
            ELSE Throw(w)
       ELSE IF now_strategy = "focus-blur-ie"
       THEN IF In("attachEvent", doc)
            THEN attachEvent(attachEvent(w, "onfocusin", "onFocus"), "onfocusout", "onBlur")
            ELSE Throw(w)
       ELSE w

\* lines 135-143: the listener set of the strategy is added
attach(w) ==
    IF strategy = "modern"
    THEN IF In("addEventListener", doc)
         THEN addEventListener(w, "document", w.state.prefix \o "visibilitychange",
                               "onChange", FALSE)
         ELSE Throw(w)
    ELSE IF strategy = "focus-blur"
    THEN IF In("addEventListener", win)
         THEN addEventListener(addEventListener(w, "window", "focus", "onFocus", TRUE),
                               "window", "blur", "onBlur", TRUE)
         ELSE Throw(w)
    ELSE IF strategy = "focus-blur-ie"
    THEN IF In("attachEvent", doc)
         THEN attachEvent(attachEvent(w, "onfocusin", "onFocus"), "onfocusout", "onBlur")
         ELSE Throw(w)
    ELSE w

\* removal in the other phase than the one start() registered in
detachOtherPhase(w) ==
    IF strategy = "modern"
    THEN IF In("removeEventListener", doc)
         THEN removeEventListener(w, "document", w.state.prefix \o "visibilitychange",
                                  "onChange", TRUE)
         ELSE Throw(w)
    ELSE IF strategy = "focus-blur"
    THEN IF In("removeEventListener", win)
         THEN removeEventListener(
                  removeEventListener(w, "window", "focus", "onFocus", FALSE),
                  "window", "blur", "onBlur", FALSE)
         ELSE Throw(w)
    ELSE IF strategy = "focus-blur-ie"
    THEN IF In("detachEvent", doc)
         THEN detachEvent(detachEvent(w, "onfocusin", "onFocus"), "onfocusout", "onBlur")
         ELSE Throw(w)
    ELSE w

\* lines 167-175 and 190-198: the listener set of the strategy is removed
detach(w) ==
    IF strategy = "modern"
    THEN IF In("removeEventListener", doc)
         THEN removeEventListener(w, "document", w.state.prefix \o "visibilitychange",
                                  "onChange", FALSE)
         ELSE Throw(w)
    ELSE IF strategy = "focus-blur"
    THEN IF In("removeEventListener", win)
         THEN removeEventListener(
                  removeEventListener(w, "window", "focus", "onFocus", TRUE),
                  "window", "blur", "onBlur", TRUE)
         ELSE Throw(w)
    ELSE IF strategy = "focus-blur-ie"
    THEN IF In("detachEvent", doc)
         THEN detachEvent(detachEvent(w, "onfocusin", "onFocus"), "onfocusout", "onBlur")
         ELSE Throw(w)
    ELSE w

\* start without the started guard
startNoStartedGuard(w0) ==
    LET w == Called(w0, "start") IN
    IF w.state.error # Null THEN [w EXCEPT !.ret = "false"]
    ELSE LET a == attach(w) IN
         IF a.ret = "throw" THEN a
         ELSE [a EXCEPT !.state.started = TRUE, !.state.isPaused = FALSE,
                        !.ret = "true"]

\* start without the error guard
startNoErrorGuard(w0) ==
    LET w == Called(w0, "start") IN
    IF w.state.started = TRUE THEN [w EXCEPT !.ret = "true"]
    ELSE LET a == attach(w) IN
         IF a.ret = "throw" THEN a
         ELSE [a EXCEPT !.state.started = TRUE, !.state.isPaused = FALSE,
                        !.ret = "true"]

\* start that reads the document's visibility again when it attaches
startRereadsValue(w0) ==
    LET w == Called(w0, "start") IN
    IF w.state.error # Null THEN [w EXCEPT !.ret = "false"]
    ELSE IF w.state.started = TRUE THEN [w EXCEPT !.ret = "true"]
    ELSE LET a == attach(w) IN
         IF a.ret = "throw" THEN a
         ELSE [a EXCEPT !.state.started = TRUE, !.state.isPaused = FALSE,
                        !.state.value = IF strategy = "modern"
                                        THEN Read(doc, w.state.visibilityProp) ELSE @,
                        !.ret = "true"]

\* start that, resuming from pause, sets the flags without adding listeners
startResumeFlagsOnly(w0) ==
    LET w == Called(w0, "start") IN
    IF w.state.error # Null THEN [w EXCEPT !.ret = "false"]
    ELSE IF w.state.started = TRUE THEN [w EXCEPT !.ret = "true"]
    ELSE LET a == IF w.state.isPaused THEN w ELSE attach(w) IN
         IF a.ret = "throw" THEN a
         ELSE [a EXCEPT !.state.started = TRUE, !.state.isPaused = FALSE,
                        !.ret = "true"]

start(w0) ==
    LET w == Called(w0, "start") IN
    IF w.state.error # Null THEN [w EXCEPT !.ret = "false"]
    ELSE IF w.state.started = TRUE THEN [w EXCEPT !.ret = "true"]
    ELSE LET a == attach(w) IN
         IF a.ret = "throw" THEN a
         ELSE [a EXCEPT !.state.started = TRUE, !.state.isPaused = FALSE,
                        !.ret = "true"]

\* pause that sets the flags and leaves the listeners attached
pauseKeepsListeners(w0) ==
    LET w == Called(w0, "pause") IN
    IF w.state.error # Null THEN [w EXCEPT !.ret = "false"]
    ELSE IF w.state.started = FALSE THEN [w EXCEPT !.ret = "true"]
    ELSE [w EXCEPT !.state.started = FALSE, !.state.isPaused = TRUE, !.ret = "true"]

pause(w0) ==
    LET w == Called(w0, "pause") IN
    IF w.state.error # Null THEN [w EXCEPT !.ret = "false"]
    ELSE IF w.state.started = FALSE THEN [w EXCEPT !.ret = "true"]
    ELSE LET a == detach(w) IN
         IF a.ret = "throw" THEN a
         ELSE [a EXCEPT !.state.started = FALSE, !.state.isPaused = TRUE,
                        !.ret = "true"]

\* destroy that also resets the transition counter
destroyResetsCount(w0) ==
    LET w == Called(w0, "destroy")
        a == IF w.state.started THEN detach(w) ELSE w
    IN IF a.ret = "throw" THEN a
       ELSE [a EXCEPT !.state.started = FALSE, !.state.isPaused = FALSE,
                      !.state.stateChangeCount = 0, !.ret = "void"]

\* destroy that resets the flags and leaves the listeners attached
destroyKeepsListeners(w0) ==
    LET w == Called(w0, "destroy") IN
    [w EXCEPT !.state.started = FALSE, !.state.isPaused = FALSE, !.ret = "void"]

\* destroy that removes the listeners and forgets to reset started
destroyKeepsStarted(w0) ==
    LET w == Called(w0, "destroy")
        a == IF w.state.started THEN detach(w) ELSE w
    IN IF a.ret = "throw" THEN a
       ELSE [a EXCEPT !.state.isPaused = FALSE, !.ret = "void"]

\* destroy that removes the listeners whether started or not
destroyAlwaysDetaches(w0) ==
    LET w == Called(w0, "destroy")
        a == detach(w)
    IN IF a.ret = "throw" THEN a
       ELSE [a EXCEPT !.state.started = FALSE, !.state.isPaused = FALSE,
                      !.ret = "void"]

\* destroy that also forgets the time of the last transition
destroyClearsTime(w0) ==
    LET w == Called(w0, "destroy")
        a == IF w.state.started THEN detach(w) ELSE w
    IN IF a.ret = "throw" THEN a
       ELSE [a EXCEPT !.state.started = FALSE, !.state.isPaused = FALSE,
                      !.state.lastStateChangeTime = NullTime, !.ret = "void"]

\* destroy that clears started and leaves isPaused as it is
destroyKeepsPaused(w0) ==
    LET w == Called(w0, "destroy")
        a == IF w.state.started THEN detach(w) ELSE w
    IN IF a.ret = "throw" THEN a
       ELSE [a EXCEPT !.state.started = FALSE, !.ret = "void"]

destroy(w0) ==
    LET w == Called(w0, "destroy")
        a == IF w.state.started THEN detach(w) ELSE w
    IN IF a.ret = "throw" THEN a
       ELSE [a EXCEPT !.state.started = FALSE, !.state.isPaused = FALSE,
                      !.ret = "void"]

(***************************************************************************)
(* eventEmitter.ts                                                         *)
(***************************************************************************)
\* the subscribers of the model: f only observes; g calls a lifecycle method
\* of the tracker, pause() or destroy(), w.g saying which this time
Listeners == {"f", "g"}

\* a subscriber whose body raises
Raising == {"h"}

\* subscribers that use the registry from inside the callback: u unsubscribes
\* itself from 'update', v unsubscribes f from 'update'
Unsubscribing == {"u", "v"}

LifecycleCalls == {"pause", "destroy"}

\* off(event, listener): listeners.indexOf(listener), then splice(index, 1)
\* when it is found
off(ev, event, listener) ==
    IF event \in DOMAIN ev
    THEN [ev EXCEPT ![event] = removeFirst(@, listener)]
    ELSE ev

\* listener(...args): the call is recorded with what the tracker's accessors
\* answer at that moment, then the subscriber's body runs
call(w, listener, args) ==
    LET c == [w EXCEPT !.invoked =
                  Append(@, [listener |-> listener, args |-> args,
                             started |-> w.state.started,
                             isPaused |-> w.state.isPaused,
                             value |-> w.state.value,
                             count |-> w.state.stateChangeCount,
                             time |-> w.state.lastStateChangeTime])]
        r == IF listener = "g" /\ w.g = "pause" THEN pause(c)
             ELSE IF listener = "g" /\ w.g = "destroy" THEN destroy(c)
             ELSE IF listener = "u" THEN [c EXCEPT !.events = off(@, "update", "u")]
             ELSE IF listener = "v" THEN [c EXCEPT !.events = off(@, "update", "f")]
             ELSE c
    IN IF listener \in Raising THEN Throw(c)
       ELSE IF r.ret = "throw" THEN r
       ELSE [r EXCEPT !.ret = c.ret]

\* listeners.forEach(listener => listener(...args)), from index i on: the
\* array is read as it is when index i is reached, up to the length len it
\* had when forEach began; an exception raised by a callback ends the loop
\* and propagates
RECURSIVE forEach(_, _, _, _, _)
\* forEach that ends the loop once the tracker is paused or not started
forEachWhileActive(w, event, i, len, args) ==
    IF i > len \/ w.ret = "throw" THEN w
    ELSE IF ~w.state.started \/ w.state.isPaused THEN w
    ELSE IF i > Len(w.events[event]) THEN forEach(w, event, i + 1, len, args)
    ELSE forEach(call(w, w.events[event][i], args), event, i + 1, len, args)

forEach(w, event, i, len, args) ==
    IF i > len \/ w.ret = "throw" THEN w
    ELSE IF i > Len(w.events[event]) THEN forEach(w, event, i + 1, len, args)
    ELSE forEach(call(w, w.events[event][i], args), event, i + 1, len, args)

on(ev, event, listener) ==
    IF event \in DOMAIN ev
    THEN [ev EXCEPT ![event] = Append(@, listener)]
    ELSE ev @@ (event :> <<listener>>)

\* w.published records the call
emit(w0, event, args) ==
    LET w == [w0 EXCEPT !.published = Append(@, [event |-> event, args |-> args])] IN
    IF event \in DOMAIN w.events
    THEN forEach(w, event, 1, Len(w.events[event]), args) ELSE w

(***************************************************************************)
(* The shared transition handler and the three native handlers.            *)
(***************************************************************************)
\* updateState that stamps the transition with the time of the previous one,
\* or 0 when there was none
updateStateStaleTime(w0, newState) ==
    LET w == [w0 EXCEPT !.handled = Append(@, newState)] IN
    IF w.state.isPaused THEN w
    ELSE IF newState # w.state.value
    THEN emit([w EXCEPT !.state.value = newState,
                        !.state.lastStateChangeTime = IF @ = NullTime THEN 0 ELSE @,
                        !.state.stateChangeCount = @ + 1],
              eventNames.update, <<newState>>)
    ELSE w

\* updateState without the comparison with the current value
updateStateNoCompare(w0, newState) ==
    LET w == [w0 EXCEPT !.handled = Append(@, newState)] IN
    IF w.state.isPaused THEN w
    ELSE emit([w EXCEPT !.state.value = newState,
                        !.state.lastStateChangeTime = now,
                        !.state.stateChangeCount = @ + 1],
              eventNames.update, <<newState>>)

\* updateState without the isPaused guard
updateStateNoPauseGuard(w0, newState) ==
    LET w == [w0 EXCEPT !.handled = Append(@, newState)] IN
    IF newState # w.state.value
    THEN emit([w EXCEPT !.state.value = newState,
                        !.state.lastStateChangeTime = now,
                        !.state.stateChangeCount = @ + 1],
              eventNames.update, <<newState>>)
    ELSE w

\* updateState that publishes before it records the transition
updateStateEmitFirst(w0, newState) ==
    LET w == [w0 EXCEPT !.handled = Append(@, newState)] IN
    IF w.state.isPaused THEN w
    ELSE IF newState # w.state.value
    THEN [emit(w, eventNames.update, <<newState>>)
             EXCEPT !.state.value = newState,
                    !.state.lastStateChangeTime = now,
                    !.state.stateChangeCount = @ + 1]
    ELSE w

updateState(w0, newState) ==
    LET w == [w0 EXCEPT !.handled = Append(@, newState)] IN
    IF w.state.isPaused THEN w
    ELSE IF newState # w.state.value
    THEN emit([w EXCEPT !.state.value = newState,
                        !.state.lastStateChangeTime = now,
                        !.state.stateChangeCount = @ + 1],
              eventNames.update, <<newState>>)
    ELSE w

\* onChange that reads the value the document had before the signal
onChangeStale(w, d) == updateState(w, Read(doc, w.state.visibilityProp))

\* d is the document as the host has it when the handler runs
onChange(w, d) == updateState(w, Read(d, w.state.visibilityProp))

\* onFocus that reports the host as hidden
onFocusHidden(w) == updateState(w, "hidden")

onFocus(w) == updateState(w, "visible")

onBlur(w) == updateState(w, "hidden")

handle(w, handler, d) ==
    IF handler = "onChange" THEN onChange(w, d)
    ELSE IF handler = "onFocus" THEN onFocus(w)
    ELSE onBlur(w)

\* the host invokes the registrations regs, taken from its list when the
\* dispatch began; one removed in the meantime is skipped; an exception a
\* handler lets escape is reported by the host, which goes on with the next
RECURSIVE dispatch(_, _, _)
dispatch(w, regs, d) ==
    IF regs = <<>> THEN w
    ELSE LET r == handle([w EXCEPT !.ret = "none"], Head(regs).handler, d) IN
         dispatch(IF Head(regs) \in Range(w.native)
                  THEN [r EXCEPT !.ret = IF w.ret = "throw" THEN "throw" ELSE @]
                  ELSE w,
                  Tail(regs), d)

\* the registrations of the host for an event of one of the types at the target
Registered(target, types) ==
    SelectSeq(native, LAMBDA r : r.target = target /\ r.type \in types)

(***************************************************************************)
(* The state after construction.                                           *)
(***************************************************************************)
\* opts.eventNames.update as the caller gives it
OptUpdates == {Undefined, "", "changed"}

\* the event names subscribers use
EventNames == {"update", "changed"}

HasVisibility(props) ==
    \E p \in Range(availablePrefixes) \cup {""} :
        (p \o (IF Len(p) > 0 THEN "VisibilityState" ELSE "visibilityState")) \in props

\* the constructions of the model, each with the values the document's
\* visibility property may hold at that moment: every host with both handles
\* and the default channel (any value when the cache is empty, a non-empty
\* one when it holds a prefix); the standard host, visible, with a channel
\* name given and the legacy host with an empty one given; the standard host
\* with either handle missing and the legacy host without its window
Setups ==
    {[host |-> h, hasWin |-> TRUE, hasDoc |-> TRUE, optUpdate |-> Undefined,
      values |-> IF h[3] = Null THEN Values ELSE Values \ {""}] : h \in Hosts}
    \cup {[host |-> <<DomDocument, DomWindow, Null>>, hasWin |-> TRUE, hasDoc |-> TRUE,
           optUpdate |-> o, values |-> {"visible"}] : o \in OptUpdates \ {Undefined, ""}}
    \cup {[host |-> <<LegacyDocument, LegacyWindow, Null>>, hasWin |-> TRUE,
           hasDoc |-> TRUE, optUpdate |-> "", values |-> {"visible"}]}
    \cup {[host |-> <<DomDocument, DomWindow, Null>>, hasWin |-> hw, hasDoc |-> hd,
           optUpdate |-> Undefined, values |-> {"visible"}] :
              hw \in BOOLEAN, hd \in BOOLEAN}
    \cup {[host |-> <<LegacyDocument, LegacyWindow, Null>>, hasWin |-> FALSE,
           hasDoc |-> TRUE, optUpdate |-> Undefined, values |-> {"visible"}]}

\* the document of a setup reporting visibility vis and answering focused
SetupDocument(setup, vis, focused) ==
    IF setup.hasDoc THEN Handle(setup.host[1], vis, focused) ELSE NoHandle

SetupWindow(setup) ==
    IF setup.hasWin THEN Handle(setup.host[2], Undefined, FALSE) ELSE NoHandle

\* the tracker is constructed in one of the setups S; the focus answer is
\* enumerated where the construction depends on it
\* no second tracker is constructed
NoPeer == [state |-> InitialState, events |-> <<>>]

InitBoth(S, second) ==
    \E setup \in S, focused \in BOOLEAN :
    \E vis \in IF setup.hasDoc /\ HasVisibility(setup.host[1]) THEN setup.values
                ELSE {Undefined} :
        LET d == SetupDocument(setup, vis, focused)
            w == SetupWindow(setup)
            t == Construct(w, d, setup.optUpdate, setup.host[3])
        IN /\ focused =>
                  t # Construct(w, SetupDocument(setup, vis, FALSE), setup.optUpdate,
                                setup.host[3])
           /\ doc = d
           /\ win = w
           /\ cachedPrefix = t.cache
           /\ prefixLog = [probed |-> t.probed,
                           writes |-> IF t.cache = Null THEN 0 ELSE 1]
           /\ opts = [update |-> setup.optUpdate]
           /\ state = t.state
           /\ strategy = t.strategy
           /\ eventNames = t.eventNames
           /\ native = <<>>
           /\ events = <<>>
           /\ now = 0
           /\ ret = "none"
           /\ op = "construct"
           /\ hostCalls = <<>>
           /\ handled = <<>>
           /\ invoked = <<>>
           /\ published = <<>>
           /\ lifecycle = [destroyed |-> FALSE, restarted |-> FALSE]
           /\ peer = IF second THEN [state |-> t.state, events |-> <<>>] ELSE NoPeer

InitFrom(S) == InitBoth(S, FALSE)

Init == InitFrom(Setups)

(***************************************************************************)
(* The actions: one per public operation and per host event.               *)
(***************************************************************************)
Commit(w, name) ==
    /\ state' = w.state
    /\ native' = w.native
    /\ events' = w.events
    /\ published' = w.published
    /\ lifecycle' = w.lifecycle
    /\ hostCalls' = w.hostCalls
    /\ handled' = w.handled
    /\ invoked' = w.invoked
    /\ ret' = w.ret
    /\ op' = name
    /\ UNCHANGED <<cachedPrefix, prefixLog, opts, strategy, eventNames, peer>>

Start == Commit(start(World), "start") /\ UNCHANGED <<win, doc, now>>

Pause == Commit(pause(World), "pause") /\ UNCHANGED <<win, doc, now>>

Destroy == Commit(destroy(World), "destroy") /\ UNCHANGED <<win, doc, now>>

\* the subscribers of the tracker's channel, in subscription order
Subscribers ==
    IF eventNames.update \in DOMAIN events THEN events[eventNames.update] ELSE <<>>

Subscriptions == IF DOMAIN events = {} THEN 0
                 ELSE IF Cardinality(DOMAIN events) = 1
                 THEN Len(events[CHOOSE e \in DOMAIN events : TRUE])
                 ELSE Len(events["update"]) + Len(events["changed"])

\* a subscriber is added; on a name that is not the tracker's channel the
\* observer f stands for every subscriber, and g subscribes once
On ==
    \E event \in EventNames, listener \in Listeners :
        /\ Subscriptions < MaxSubs
        /\ event # eventNames.update => listener = "f"
        /\ listener = "g" => "g" \notin Range(Subscribers)
        /\ Commit([World EXCEPT !.events = on(@, event, listener), !.ret = "void"], "on")
        /\ UNCHANGED <<win, doc, now>>

\* the types of the visibility events a document fires: one per hidden
\* property it has
VisibilityTypes(d) ==
    {p \o "visibilitychange" :
        p \in {q \in Range(availablePrefixes) \cup {""} :
                  In(q \o (IF Len(q) > 0 THEN "Hidden" ELSE "hidden"), d)}}

\* the host's visibility becomes v (or is v already) and the document fires
\* its visibilitychange event
HostVisibilityChange ==
    \E v \in Values, c \in LifecycleCalls :
        /\ doc.present
        /\ VisibilityTypes(doc) # {}
        /\ state.stateChangeCount < MaxCount
        /\ doc' = [doc EXCEPT !.vis = v]
        /\ Commit(dispatch(WorldWhere(c), Registered("document", VisibilityTypes(doc)),
                           doc'),
                  "visibilitychange")
        /\ UNCHANGED <<win, now>>

\* the host gains focus: window fires focus, a legacy document onfocusin
\* (doc.focused is what hasFocus() answered at construction, the only time it
\* is asked, and is left as it was)
HostFocus ==
    \E c \in LifecycleCalls :
        /\ doc.present
        /\ state.stateChangeCount < MaxCount
        /\ Commit(dispatch(dispatch(WorldWhere(c), Registered("window", {"focus"}), doc),
                           Registered("document", {"onfocusin"}), doc), "focus")
        /\ UNCHANGED <<win, doc, now>>

\* the host loses focus: window fires blur, a legacy document onfocusout
HostBlur ==
    \E c \in LifecycleCalls :
        /\ doc.present
        /\ state.stateChangeCount < MaxCount
        /\ Commit(dispatch(dispatch(WorldWhere(c), Registered("window", {"blur"}), doc),
                           Registered("document", {"onfocusout"}), doc), "blur")
        /\ UNCHANGED <<win, doc, now>>

\* time passes
Tick ==
    /\ now < MaxClock
    /\ now' = now + 1
    /\ Commit(World, "tick")
    /\ UNCHANGED <<win, doc>>

Next ==
    \/ Start
    \/ Pause
    \/ Destroy
    \/ On
    \/ HostVisibilityChange
    \/ HostFocus
    \/ HostBlur
    \/ Tick

Spec == Init /\ [][Next]_vars

(***************************************************************************)
(* Raising subscribers: the standard host, the default channel and, beside *)
(* f and g, a subscriber whose body raises.                                *)
(***************************************************************************)
RaiseSetups ==
    {[host |-> <<DomDocument, DomWindow, Null>>, hasWin |-> TRUE, hasDoc |-> TRUE,
      optUpdate |-> Undefined, values |-> Values]}

InitRaise == InitFrom(RaiseSetups)

OnRaising ==
    \E listener \in Raising :
        /\ Subscriptions < MaxSubs
        /\ Commit([World EXCEPT !.events = on(@, eventNames.update, listener),
                                !.ret = "void"], "on")
        /\ UNCHANGED <<win, doc, now>>

NextRaise ==
    \/ Next
    \/ OnRaising

SpecRaise == InitRaise /\ [][NextRaise]_vars

(***************************************************************************)
(* Host variance: documents and windows with every combination of the      *)
(* capabilities the tracker probes or calls, and a host whose capabilities *)
(* change after the tracker was constructed.  No subscriber is involved.   *)
(***************************************************************************)
DocumentCapabilities ==
    {v \cup e \cup a :
        v \in {{}, {"hidden"}, {"hidden", "visibilityState"}},
        e \in {{}, {"addEventListener", "removeEventListener", "hasFocus"}},
        a \in {{}, {"attachEvent", "detachEvent"}}}

WindowCapabilities == {{}, DomWindow}

VarianceSetups ==
    {[host |-> <<d, w, Null>>, hasWin |-> TRUE, hasDoc |-> TRUE, optUpdate |-> Undefined,
      values |-> {"visible"}] :
        d \in DocumentCapabilities, w \in WindowCapabilities}
    \cup {[host |-> <<DomDocument, DomWindow, "webkit">>, hasWin |-> TRUE, hasDoc |-> TRUE,
           optUpdate |-> Undefined, values |-> {"visible"}]}

InitVariance == InitFrom(VarianceSetups)

\* the document and the window come to expose other methods and properties
HostCapabilities ==
    \E d \in DocumentCapabilities, w \in WindowCapabilities :
        /\ doc.present /\ win.present
        /\ doc' = [doc EXCEPT !.props = d,
                              !.vis = IF HasVisibility(d)
                                      THEN (IF @ = Undefined THEN "visible" ELSE @)
                                      ELSE Undefined]
        /\ win' = [win EXCEPT !.props = w]
        /\ Commit(World, "capabilities")
        /\ UNCHANGED now

NextVariance ==
    \/ Start
    \/ Pause
    \/ Destroy
    \/ HostVisibilityChange
    \/ HostFocus
    \/ HostBlur
    \/ HostCapabilities

SpecVariance == InitVariance /\ [][NextVariance]_vars

(***************************************************************************)
(* Events in flight: the host had taken a handler of the tracker from its  *)
(* list for an event it was dispatching when pause() or destroy() removed  *)
(* the listeners, and it still invokes that handler.                       *)
(***************************************************************************)
InFlightSetups ==
    {[host |-> <<d, w, Null>>, hasWin |-> TRUE, hasDoc |-> TRUE,
      optUpdate |-> Undefined, values |-> Values] :
        <<d, w>> \in {<<DomDocument, DomWindow>>, <<LegacyDocument, LegacyWindow>>}}

InitInFlight == InitFrom(InFlightSetups)

\* the last operation removed the listeners; the handler of one of them runs,
\* the document reporting v by then
LateSignal ==
    \E i \in 1..Len(hostCalls), v \in Values, c \in LifecycleCalls :
        /\ hostCalls[i].call \in {"removeEventListener", "detachEvent"}
        /\ ~state.started
        /\ state.stateChangeCount < MaxCount
        /\ doc' = IF hostCalls[i].reg.handler = "onChange"
                  THEN [doc EXCEPT !.vis = v] ELSE doc
        /\ Commit(handle(WorldWhere(c), hostCalls[i].reg.handler, doc'), "late")
        /\ UNCHANGED <<win, now>>

NextInFlight ==
    \/ Next
    \/ LateSignal

SpecInFlight == InitInFlight /\ [][NextInFlight]_vars

(***************************************************************************)
(* Two trackers, A and B, built by two calls of                            *)
(* createVisibilityStateListener on the same window and document.  A is    *)
(* the tracker of state, events and the logs; B is peer.  The host's list  *)
(* native holds the listeners of both.                                     *)
(***************************************************************************)
Instances == {"A", "B"}

OwnHandlers == {"onChange", "onFocus", "onBlur"}

\* const state = {...} is an object created by the call (lines 40-50)
stateOfShared(t) == "A"

stateOf(t) == t

\* const emitter = createEventEmitter() is created by the call (line 36)
emitterOfShared(t) == "A"

emitterOf(t) == t

\* onChange, onFocus and onBlur are closures created by the call
\* (lines 93-104): the functions of B are not those of A
handlerOfShared(t, h) == h

handlerOf(t, h) == IF t = "A" THEN h ELSE "peer." \o h

\* the host's list as B's code sees it: its own functions under their names
ViewOfPeer(regs) ==
    [i \in 1..Len(regs) |->
        [regs[i] EXCEPT !.handler =
            IF \E h \in OwnHandlers : regs[i].handler = handlerOf("B", h)
            THEN CHOOSE h \in OwnHandlers : regs[i].handler = handlerOf("B", h)
            ELSE "other." \o regs[i].handler]]

FromPeer(regs) ==
    [i \in 1..Len(regs) |->
        [regs[i] EXCEPT !.handler =
            IF regs[i].handler \in OwnHandlers THEN handlerOf("B", regs[i].handler)
            ELSE CHOOSE h \in OwnHandlers : "other." \o h = regs[i].handler]]

\* the listeners of tracker t in the host's list
ListenersOf(t, regs) ==
    SelectSeq(regs, LAMBDA r : \E h \in OwnHandlers : r.handler = handlerOf(t, h))

\* the world a call of B works on, w being A's
PeerWorld(w) ==
    [w EXCEPT !.state = IF stateOf("B") = "B" THEN peer.state ELSE w.state,
              !.events = IF emitterOf("B") = "B" THEN peer.events ELSE w.events,
              !.native = ViewOfPeer(w.native),
              !.hostCalls = <<>>, !.handled = <<>>, !.invoked = <<>>, !.ret = "none"]

\* what a call of B that ended in world r leaves, w being A's world before it
CommitPeer(w, r, name) ==
    /\ peer' = [state |-> IF stateOf("B") = "B" THEN r.state ELSE peer.state,
                events |-> IF emitterOf("B") = "B" THEN r.events ELSE peer.events]
    /\ state' = IF stateOf("B") = "B" THEN w.state ELSE r.state
    /\ events' = IF emitterOf("B") = "B" THEN w.events ELSE r.events
    /\ native' = FromPeer(r.native)
    /\ published' = w.published
    /\ lifecycle' = w.lifecycle
    /\ hostCalls' = w.hostCalls
    /\ handled' = w.handled
    /\ invoked' = w.invoked
    /\ ret' = r.ret
    /\ op' = name
    /\ UNCHANGED <<cachedPrefix, prefixLog, opts, strategy, eventNames>>

PairSetups ==
    {[host |-> <<d, w, Null>>, hasWin |-> TRUE, hasDoc |-> TRUE,
      optUpdate |-> Undefined, values |-> {"visible", "hidden"}] :
        <<d, w>> \in {<<DomDocument, DomWindow>>, <<LegacyDocument, LegacyWindow>>}}

InitPair == InitBoth(PairSetups, TRUE)

PeerStart ==
    /\ CommitPeer(World, start(PeerWorld(World)), "peer.start")
    /\ UNCHANGED <<win, doc, now>>

PeerPause ==
    /\ CommitPeer(World, pause(PeerWorld(World)), "peer.pause")
    /\ UNCHANGED <<win, doc, now>>

PeerDestroy ==
    /\ CommitPeer(World, destroy(PeerWorld(World)), "peer.destroy")
    /\ UNCHANGED <<win, doc, now>>

PeerOn ==
    /\ emitterOf("B") = "B" => peer.events = <<>>
    /\ Subscriptions < MaxSubs
    /\ CommitPeer(World, [PeerWorld(World) EXCEPT !.events = on(@, eventNames.update, "f"),
                                                  !.ret = "void"], "peer.on")
    /\ UNCHANGED <<win, doc, now>>

PairOn ==
    /\ Subscriptions < MaxSubs
    /\ Commit([World EXCEPT !.events = on(@, eventNames.update, "f"), !.ret = "void"], "on")
    /\ UNCHANGED <<win, doc, now>>

\* the host delivers an event of type to the listeners both trackers have
\* at the target, A's first then B's
Deliver(target, types, d, name) ==
    LET a == dispatch(World, ListenersOf("A", Registered(target, types)), d)
        b == dispatch(PeerWorld(a),
                      SelectSeq(ViewOfPeer(Registered(target, types)),
                                LAMBDA r : r.handler \in OwnHandlers), d)
    IN /\ state.stateChangeCount < MaxCount
       /\ peer.state.stateChangeCount < MaxCount
       /\ CommitPeer(a, b, name)

PairVisibilityChange ==
    \E v \in {"visible", "hidden"} :
        /\ VisibilityTypes(doc) # {}
        /\ doc' = [doc EXCEPT !.vis = v]
        /\ Deliver("document", VisibilityTypes(doc), doc', "visibilitychange")
        /\ UNCHANGED <<win, now>>

PairFocus ==
    /\ Deliver("document", {"onfocusin"}, doc, "focus")
    /\ UNCHANGED <<win, doc, now>>

PairBlur ==
    /\ Deliver("document", {"onfocusout"}, doc, "blur")
    /\ UNCHANGED <<win, doc, now>>

NextPair ==
    \/ Start
    \/ Pause
    \/ Destroy
    \/ PairOn
    \/ PeerStart
    \/ PeerPause
    \/ PeerDestroy
    \/ PeerOn
    \/ PairVisibilityChange
    \/ PairFocus
    \/ PairBlur

SpecPair == InitPair /\ [][NextPair]_vars

(***************************************************************************)
(* The registry by itself: createEventEmitter's on, off and emit called    *)
(* directly, with observing, lifecycle-calling and raising callbacks.      *)
(***************************************************************************)
InitRegistry == InitFrom(RaiseSetups)

EmitterOn ==
    \E event \in EventNames, listener \in Listeners \cup Raising \cup Unsubscribing :
        /\ Subscriptions < MaxSubs
        /\ listener \in Unsubscribing => event = "update"
        /\ Commit([World EXCEPT !.events = on(@, event, listener), !.ret = "void"], "on")
        /\ UNCHANGED <<win, doc, now>>

EmitterOff ==
    \E event \in EventNames, listener \in Listeners \cup Raising \cup Unsubscribing :
        /\ Commit([World EXCEPT !.events = off(@, event, listener), !.ret = "void"], "off")
        /\ UNCHANGED <<win, doc, now>>

EmitterEmit ==
    \E event \in EventNames, v \in {"visible", "hidden"}, c \in LifecycleCalls :
        LET r == emit(WorldWhere(c), event, <<v>>) IN
        /\ Len(published) < MaxCount
        /\ Commit([r EXCEPT !.ret = IF @ = "throw" THEN "throw" ELSE "void"], "emit")
        /\ UNCHANGED <<win, doc, now>>

NextRegistry ==
    \/ EmitterOn
    \/ EmitterOff
    \/ EmitterEmit

SpecRegistry == InitRegistry /\ [][NextRegistry]_vars

(***************************************************************************)
(* The prefix cache over the life of the process: findPrefix called with   *)
(* any document, the cache reset, and further trackers constructed, the    *)
(* model following the one constructed last.                               *)
(***************************************************************************)
\* the standard document and the documents exposing up to MaxPrefixes
\* prefixed hidden properties
PrefixDocuments ==
    {DomDocument} \cup
    {OldDocument \cup {q \o "Hidden" : q \in S} \cup {q \o "VisibilityState" : q \in S} :
        S \in {T \in SUBSET Range(availablePrefixes) : Cardinality(T) <= MaxPrefixes}}

InitPrefix == InitFrom(RaiseSetups)

\* findPrefix is called with the document of the tracker constructed last
FindPrefix ==
    LET r == findPrefix(doc, cachedPrefix) IN
    /\ doc.present
    /\ cachedPrefix' = r.cache
    /\ prefixLog' = [probed |-> r.probed,
                     writes |-> prefixLog.writes + (IF r.wrote THEN 1 ELSE 0)]
    /\ ret' = r.prefix
    /\ op' = "findPrefix"
    /\ hostCalls' = <<>> /\ handled' = <<>> /\ invoked' = <<>>
    /\ UNCHANGED <<opts, win, doc, native, state, strategy, eventNames, events, now,
                   published, lifecycle, peer>>

ResetPrefixCache ==
    /\ cachedPrefix' = resetPrefixCache
    /\ prefixLog' = [prefixLog EXCEPT !.probed = FALSE, !.writes = 0]
    /\ ret' = "void"
    /\ op' = "resetPrefixCache"
    /\ hostCalls' = <<>> /\ handled' = <<>> /\ invoked' = <<>>
    /\ UNCHANGED <<opts, win, doc, native, state, strategy, eventNames, events, now,
                   published, lifecycle, peer>>

\* createVisibilityStateListener is called again, with a window or without,
\* with one of the documents or without
Create ==
    \E p \in PrefixDocuments, hasWin \in BOOLEAN, hasDoc \in BOOLEAN :
        LET d == IF hasDoc THEN Handle(p, "visible", FALSE) ELSE NoHandle
            w == IF hasWin THEN Handle(DomWindow, Undefined, FALSE) ELSE NoHandle
            t == Construct(w, d, Undefined, cachedPrefix)
        IN /\ native = <<>>
           /\ doc' = d
           /\ win' = w
           /\ cachedPrefix' = t.cache
           /\ prefixLog' = [probed |-> t.probed,
                            writes |-> prefixLog.writes + (IF t.wrote THEN 1 ELSE 0)]
           /\ opts' = [update |-> Undefined]
           /\ state' = t.state
           /\ strategy' = t.strategy
           /\ eventNames' = t.eventNames
           /\ events' = <<>>
           /\ published' = <<>>
           /\ lifecycle' = [destroyed |-> FALSE, restarted |-> FALSE]
           /\ ret' = "none"
           /\ op' = "construct"
           /\ hostCalls' = <<>> /\ handled' = <<>> /\ invoked' = <<>>
           /\ UNCHANGED <<native, now, peer>>

NextPrefix ==
    \/ FindPrefix
    \/ ResetPrefixCache
    \/ Create

SpecPrefix == InitPrefix /\ [][NextPrefix]_vars

(***************************************************************************)
(* Accessors.                                                              *)
(***************************************************************************)
hasError(s) == s.error # Null /\ Len(s.error) > 0

getError(s) == s.error

getState(s) == s.value

getLastStateChangeTime(s) == s.lastStateChangeTime

getStateChangeCount(s) == s.stateChangeCount

(***************************************************************************)
(* Vocabulary of the properties.                                           *)
(***************************************************************************)
HostOps == {"visibilitychange", "focus", "blur"}

\* every value a native handler can pass to updateState
Signals == Values \cup {Undefined}

\* the subscribers the last operation invoked, in order
InvokedListeners(inv) == [i \in 1..Len(inv) |-> inv[i].listener]

\* the emit an accepted transition to v makes
Publication(v) == [event |-> eventNames.update, args |-> <<v>>]

\* value, count and time of a tracker state
Tracked(s) == <<s.value, s.stateChangeCount, s.lastStateChangeTime>>

(***************************************************************************)
(* C1.  For a tracker that is not paused, a native signal handled by       *)
(* updateState with a value v different from the current value sets the    *)
(* value to v, increments stateChangeCount by exactly 1, sets              *)
(* lastStateChangeTime to the clock and emits v exactly once on the        *)
(* configured channel; a signal equal to the current value changes no      *)
(* field and emits nothing.  Stated of the handler in every reachable      *)
(* state and for every value, and of every host step that reaches it.      *)
(***************************************************************************)
C1_Handler(v) ==
    LET r == updateState(World, v) IN
    ~state.isPaused =>
        IF v # state.value
        THEN /\ Tracked(r.state) = <<v, state.stateChangeCount + 1, now>>
             /\ r.published = Append(published, Publication(v))
             /\ InvokedListeners(r.invoked) = Subscribers
             /\ \A i \in 1..Len(r.invoked) : r.invoked[i].args = <<v>>
        ELSE /\ r.state = state
             /\ r.published = published
             /\ r.invoked = <<>>
             /\ r.native = native

C1_Step ==
    (op' \in HostOps /\ Len(handled') = 1 /\ ~state.isPaused) =>
        IF handled'[1] # state.value
        THEN /\ Tracked(state') = <<handled'[1], state.stateChangeCount + 1, now>>
             /\ published' = Append(published, Publication(handled'[1]))
             /\ InvokedListeners(invoked') = Subscribers
        ELSE /\ state' = state
             /\ published' = published
             /\ invoked' = <<>>

C1_Transition == [](\A v \in Signals : C1_Handler(v)) /\ [][C1_Step]_vars

\* a repeated signal was discarded after an accepted transition
C1_Witness ==
    /\ op = "visibilitychange"
    /\ handled = <<state.value>>
    /\ state.stateChangeCount = 1
    /\ ~state.isPaused
    /\ Subscribers # <<>>
    /\ invoked = <<>>

(***************************************************************************)
(* C2.  While isPaused is true, whatever native signals the host produces, *)
(* value, stateChangeCount and lastStateChangeTime keep their values and   *)
(* no subscriber is invoked.  Stated of every step taken from a paused     *)
(* state, and of the handler itself for every value it could be given.     *)
(***************************************************************************)
C2_Handler(v) ==
    LET r == updateState(World, v) IN
    state.isPaused =>
        /\ r.state = state
        /\ r.published = published
        /\ r.invoked = <<>>

C2_Step ==
    state.isPaused =>
        /\ Tracked(state') = Tracked(state)
        /\ published' = published
        /\ invoked' = <<>>

C2_Paused == [](\A v \in Signals : C2_Handler(v)) /\ [][C2_Step]_vars

\* the host has signalled another visibility to a paused tracker that had
\* followed it before
C2_Witness ==
    /\ state.isPaused
    /\ strategy = "modern"
    /\ op = "visibilitychange"
    /\ doc.vis = "visible"
    /\ state.value = "hidden"
    /\ state.stateChangeCount = 1
    /\ Subscribers # <<>>

(***************************************************************************)
(* The listener set of the selected strategy.                              *)
(***************************************************************************)
ListenerSet ==
    IF strategy = "modern"
    THEN <<Reg("document", state.prefix \o "visibilitychange", "onChange", FALSE, "dom")>>
    ELSE IF strategy = "focus-blur"
    THEN <<Reg("window", "focus", "onFocus", TRUE, "dom"),
           Reg("window", "blur", "onBlur", TRUE, "dom")>>
    ELSE IF strategy = "focus-blur-ie"
    THEN <<Reg("document", "onfocusin", "onFocus", FALSE, "legacy"),
           Reg("document", "onfocusout", "onBlur", FALSE, "legacy")>>
    ELSE <<>>

\* the host calls that add, and that remove, the listener set
AddCalls ==
    [i \in 1..Len(ListenerSet) |->
        HostCall(IF ListenerSet[i].api = "dom" THEN "addEventListener" ELSE "attachEvent",
                 ListenerSet[i])]

RemoveCalls ==
    [i \in 1..Len(ListenerSet) |->
        HostCall(IF ListenerSet[i].api = "dom" THEN "removeEventListener"
                 ELSE "detachEvent",
                 ListenerSet[i])]

(***************************************************************************)
(* C3.  start() on an error-free tracker that is already started returns   *)
(* true and makes no host call; whenever the tracker is started exactly    *)
(* one listener set of its strategy is attached, so an accepted signal     *)
(* invokes each subscriber exactly once; start() from a state that is not  *)
(* started adds the listener set once and leaves started = true and        *)
(* isPaused = false.                                                       *)
(***************************************************************************)
C3_Step ==
    /\ (op' = "start" /\ ~hasError(state)) =>
          /\ ret' = "true"
          /\ state'.started /\ ~state'.isPaused
          /\ native' = ListenerSet
          /\ IF state.started
             THEN hostCalls' = <<>> /\ native' = native /\ state' = state
             ELSE hostCalls' = AddCalls
    /\ (op' \in HostOps /\ state.started /\ published' # published) =>
          /\ published' = Append(published, Publication(state'.value))
          /\ InvokedListeners(invoked') = Subscribers

C3_StartOnce == [](state.started => native = ListenerSet) /\ [][C3_Step]_vars

\* start() was called on a started tracker
C3_Witness ==
    /\ op = "start"
    /\ ~hasError(state)
    /\ state.started
    /\ hostCalls = <<>>
    /\ native = ListenerSet
    /\ state.stateChangeCount = 1

(***************************************************************************)
(* C4.  hasError() is true and getError() is INVALID_GLOBALS exactly when  *)
(* the window or the document handle was unavailable at construction,      *)
(* otherwise hasError() is false and getError() is null; start() and       *)
(* pause() return false exactly when hasError() is true, and true          *)
(* otherwise.                                                              *)
(***************************************************************************)
C4_Errors ==
    /\ hasError(state) <=> (~win.present \/ ~doc.present)
    /\ getError(state) = IF hasError(state) THEN "INVALID_GLOBALS" ELSE Null
    /\ op \in {"start", "pause"} => ret = IF hasError(state) THEN "false" ELSE "true"

\* pause() failed on a tracker built with a document and no window
C4_Witness ==
    /\ hasError(state)
    /\ doc.present
    /\ op = "pause"
    /\ ret = "false"

(***************************************************************************)
(* C5.  A tracker constructed with an error code stays, after every        *)
(* sequence of calls and host signals, not started and not paused, with no *)
(* listener attached, reporting 'visible', a count of 0 and no transition  *)
(* time, and no subscriber is ever invoked.                                *)
(***************************************************************************)
C5_ErrorTracker ==
    hasError(state) =>
        /\ ~state.started /\ ~state.isPaused
        /\ native = <<>>
        /\ hostCalls = <<>>
        /\ getState(state) = "visible"
        /\ getStateChangeCount(state) = 0
        /\ getLastStateChangeTime(state) = NullTime
        /\ published = <<>>
        /\ invoked = <<>>

\* the host signals after destroy() and start() on a failed tracker that has
\* a subscriber
C5_Witness ==
    /\ hasError(state)
    /\ lifecycle.restarted
    /\ op \in HostOps
    /\ Subscribers # <<>>

(***************************************************************************)
(* The value the native signal of a host step carries for the tracker's    *)
(* strategy, Undefined when the step is no signal of that strategy.        *)
(***************************************************************************)
SignalValue ==
    IF strategy = "modern" /\ op' = "visibilitychange"
    THEN Read(doc', state.visibilityProp)
    ELSE IF strategy \in {"focus-blur", "focus-blur-ie"} /\ op' = "focus" THEN "visible"
    ELSE IF strategy \in {"focus-blur", "focus-blur-ie"} /\ op' = "blur" THEN "hidden"
    ELSE Undefined

(***************************************************************************)
(* C6.  From destroy() to the next start() no listener of the tracker is   *)
(* attached, and no step, whatever the host signals, emits a transition,   *)
(* invokes a subscriber or changes value, stateChangeCount or              *)
(* lastStateChangeTime.                                                    *)
(***************************************************************************)
C6_Step ==
    lifecycle.destroyed =>
        /\ Tracked(state') = Tracked(state)
        /\ published' = published
        /\ invoked' = <<>>
        /\ handled' = <<>>

C7_Started ==
    (lifecycle.restarted /\ ~hasError(state)) =>
        /\ state.started /\ ~state.isPaused
        /\ native = ListenerSet
        /\ op = "start" => ret = "true"

C7_Step ==
    (lifecycle.restarted /\ ~hasError(state) /\ op' \in HostOps
        /\ SignalValue # Undefined /\ SignalValue # getState(state)) =>
        /\ Tracked(state') = <<SignalValue, state.stateChangeCount + 1, now>>
        /\ published' = Append(published, Publication(SignalValue))
        /\ InvokedListeners(invoked') = Subscribers
        /\ \A i \in 1..Len(invoked') : invoked'[i].args = <<SignalValue>>

C7_Restart == [](C7_Started) /\ [][C7_Step]_vars

\* a signal was delivered to two subscribers after destroy() and start()
C7_Witness ==
    /\ lifecycle.restarted
    /\ ~hasError(state)
    /\ op \in HostOps
    /\ Len(invoked) = 2
    /\ state.stateChangeCount = 1

(***************************************************************************)
(* C8.  destroy() never throws and leaves started = false and isPaused =   *)
(* false, changing nothing else of the tracker; it removes the listener    *)
(* set when started was true and makes no host call otherwise, so a        *)
(* destroy() that follows a destroy() changes no field and detaches        *)
(* nothing.                                                                *)
(***************************************************************************)
C8_Step ==
    op' = "destroy" =>
        /\ ret' = "void"
        /\ state' = [state EXCEPT !.started = FALSE, !.isPaused = FALSE]
        /\ events' = events /\ published' = published /\ invoked' = <<>>
        /\ native' = <<>>
        /\ hostCalls' = IF state.started THEN RemoveCalls ELSE <<>>
        /\ op = "destroy" => (state' = state /\ hostCalls' = <<>> /\ native' = native)

C8_Destroy == [][C8_Step]_vars

\* destroy() was called on a tracker that was not started, after it had
\* tracked a transition
C8_Witness ==
    /\ op = "destroy"
    /\ hostCalls = <<>>
    /\ lifecycle.destroyed
    /\ state.stateChangeCount = 1
    /\ ~state.started /\ ~state.isPaused

(***************************************************************************)
(* C9.  pause() on an error-free started tracker removes the listener set  *)
(* of the strategy and leaves started = false and isPaused = true; on an   *)
(* error-free tracker that is not started it returns true, makes no host   *)
(* call and leaves the tracker as it was.                                  *)
(***************************************************************************)
C9_Step ==
    (op' = "pause" /\ ~hasError(state)) =>
        /\ ret' = "true"
        /\ IF state.started
           THEN /\ hostCalls' = RemoveCalls
                /\ native' = <<>>
                /\ state' = [state EXCEPT !.started = FALSE, !.isPaused = TRUE]
           ELSE /\ hostCalls' = <<>>
                /\ native' = native
                /\ state' = state

C10_Step ==
    (op' = "pause" /\ state.started /\ ret' = "true") =>
        /\ native' = ListenerSet
        /\ hostCalls' = <<>>

C10_ListenerRemains == [][C10_Step]_vars

(***************************************************************************)
(* C11.  The values published on the channel are, in the order the host    *)
(* delivers them, the native signals received while the tracker is started *)
(* with every signal equal to the then-current value removed: a signal     *)
(* that differs from the current value is published in the step that       *)
(* delivers it, with that value, and nothing else is ever published;       *)
(* no two consecutive published values are equal and the last one is the   *)
(* current value, so the first differs from the seeded value.              *)
(***************************************************************************)
C11_Published ==
    /\ \A i \in 1..Len(published) : published[i].event = eventNames.update
    /\ \A i \in 1..(Len(published) - 1) : published[i].args # published[i + 1].args
    /\ published # <<>> => published[Len(published)].args = <<state.value>>

C11_Step ==
    IF op' \in HostOps /\ state.started /\ SignalValue # Undefined
           /\ SignalValue # state.value
    THEN /\ published' = Append(published, Publication(SignalValue))
         /\ state'.value = SignalValue
         /\ \A i \in 1..Len(invoked') : invoked'[i].args = <<SignalValue>>
    ELSE /\ published' = published
         /\ state'.value = state.value
         /\ invoked' = <<>>

C11_Order == [](C11_Published) /\ [][C11_Step]_vars

\* a second transition was published to a subscriber
C11_Witness ==
    /\ op \in HostOps
    /\ Len(published) = 2
    /\ published[1].args # published[2].args
    /\ invoked # <<>>
    /\ invoked[1].args = published[2].args

(***************************************************************************)
(* C12.  Right after the construction of an error-free tracker getState()  *)
(* is the visibility value the host has at that moment (the non-empty      *)
(* value its document's visibility property holds), getStateChangeCount()  *)
(* is 0 and getLastStateChangeTime() is null.  The code derives the        *)
(* property name from the cached prefix, so against a document the cache   *)
(* does not fit it never reads the value.                                  *)
(***************************************************************************)
C12_Seeded ==
    (op = "construct" /\ ~hasError(state)) =>
        /\ getStateChangeCount(state) = 0
        /\ getLastStateChangeTime(state) = NullTime
        /\ (HasVisibility(doc.props) /\ ~Falsy(doc.vis)) => getState(state) = doc.vis

(***************************************************************************)
(* C13.  On every accepted transition every callback subscribed on the     *)
(* channel is invoked exactly once, in subscription order, with the new    *)
(* value as its only argument.  emit does not isolate the callbacks: when  *)
(* one raises, those after it are not invoked.                             *)
(***************************************************************************)
C13_Step ==
    (op' \in HostOps /\ published' # published) =>
        /\ InvokedListeners(invoked') = Subscribers
        /\ \A i \in 1..Len(invoked') : invoked'[i].args = <<state'.value>>

C13_FanOut == [][C13_Step]_vars

(***************************************************************************)
(* C14.  Accepted transitions are published only under the configured      *)
(* channel name, which is opts.eventNames.update when that is given and    *)
(* not empty and 'update' otherwise: every emit is made under that name    *)
(* and a step that invokes callbacks invokes subscribers of that name, in  *)
(* their order from the first on, so a callback subscribed under another   *)
(* name is never invoked.                                                  *)
(***************************************************************************)
C14_Name ==
    /\ eventNames.update = IF Falsy(opts.update) THEN "update" ELSE opts.update
    /\ \A i \in 1..Len(published) : published[i].event = eventNames.update

C14_Step ==
    invoked' # <<>> =>
        /\ published' = Append(published, Publication(state'.value))
        /\ Len(invoked') <= Len(Subscribers)
        /\ InvokedListeners(invoked') = SubSeq(Subscribers, 1, Len(invoked'))

C14_Channel == [](C14_Name) /\ [][C14_Step]_vars

\* with the channel named 'changed' a transition was delivered while a
\* callback was subscribed under 'update'
C14_Witness ==
    /\ opts.update = "changed"
    /\ "update" \in DOMAIN events
    /\ "changed" \in DOMAIN events
    /\ op \in HostOps
    /\ invoked # <<>>
    /\ InvokedListeners(invoked) = events["changed"]

\* C14 as stated: the channel is opts.eventNames.update whenever it is given
C14_Given ==
    eventNames.update = IF opts.update = Undefined THEN "update" ELSE opts.update

(***************************************************************************)
(* C15.  When a callback raises during emit(event, args), every callback   *)
(* registered after it for the same event is still invoked in that emit.   *)
(* Stated of emit in every reachable state, for every registered event:    *)
(* each registration is invoked, whether or not an earlier one raised.     *)
(* The code's forEach ends at the first callback that raises.              *)
(***************************************************************************)
C15_Isolation ==
    \A event \in DOMAIN events :
        LET r == emit(World, event, <<"hidden">>) IN
        (\E i \in 1..Len(events[event]) : events[event][i] \in Raising) =>
            InvokedListeners(r.invoked) = events[event]

(***************************************************************************)
(* C16.  No lifecycle method raises: on an error-free tracker, whatever    *)
(* capabilities the document and the window have, start(), pause() and     *)
(* destroy() return normally.  The code calls the method its strategy      *)
(* names without testing that the host has it.                             *)
(***************************************************************************)
C16_NoRaise ==
    (op \in {"start", "pause", "destroy"} /\ ~hasError(state)) => ret # "throw"

(***************************************************************************)
(* C17.  stateChangeCount is 0 after construction, increases by exactly 1  *)
(* in a step that accepts a transition and is left alone by every other    *)
(* step, whatever start(), pause(), destroy() and the host do; it always   *)
(* equals the number of emits the tracker has made on its channel.         *)
(***************************************************************************)
C17_Count ==
    /\ op = "construct" => getStateChangeCount(state) = 0
    /\ getStateChangeCount(state) = Len(published)
    /\ \A i \in 1..Len(published) : published[i].event = eventNames.update

C17_Step ==
    getStateChangeCount(state') =
        IF state'.value # state.value THEN getStateChangeCount(state) + 1
        ELSE getStateChangeCount(state)

C17_Counter == [](C17_Count) /\ [][C17_Step]_vars

\* destroy() and start() were called after two transitions
C17_Witness ==
    /\ getStateChangeCount(state) = 2
    /\ lifecycle.restarted
    /\ op = "start"

(***************************************************************************)
(* C18.  With a clock that does not go back, lastStateChangeTime never     *)
(* decreases; it changes only in a step that accepts a transition, and     *)
(* every such step sets it to the clock value of that step.                *)
(***************************************************************************)
C18_Step ==
    /\ getLastStateChangeTime(state') >= getLastStateChangeTime(state)
    /\ getLastStateChangeTime(state') # getLastStateChangeTime(state) =>
           (op' \in HostOps /\ published' # published)
    /\ published' # published => getLastStateChangeTime(state') = now

C18_Time == [](getLastStateChangeTime(state) <= now) /\ [][C18_Step]_vars

\* a second transition was accepted after the clock had advanced
C18_Witness ==
    /\ op \in HostOps
    /\ getStateChangeCount(state) = 2
    /\ getLastStateChangeTime(state) = now
    /\ now > 0
    /\ invoked # <<>>

(***************************************************************************)
(* C19.  For each strategy the registrations pause() and destroy() remove  *)
(* are exactly those start() added: same target, event names, handlers and *)
(* capture phase, through the matching API (modern: the prefixed           *)
(* visibilitychange on the document; focus-blur: focus and blur on the     *)
(* window, capturing; focus-blur-ie: onfocusin and onfocusout on the       *)
(* document through attachEvent / detachEvent).  So a tracker that is not  *)
(* started has no handler attached.                                        *)
(***************************************************************************)
C19_Regs(calls) == [i \in 1..Len(calls) |-> calls[i].reg]

C19_Attached ==
    /\ native \in {<<>>, ListenerSet}
    /\ ~state.started => native = <<>>

C19_Step ==
    /\ (~state.started /\ state'.started) =>
           /\ hostCalls' = AddCalls
           /\ native' = C19_Regs(hostCalls')
    /\ (state.started /\ ~state'.started) =>
           /\ hostCalls' = RemoveCalls
           /\ C19_Regs(hostCalls') = native
           /\ native' = <<>>
    /\ state'.started = state.started => native' = native

C20_Chosen ==
    (op = "construct" /\ ~hasError(state)) =>
        /\ state.hiddenProp =
               state.prefix \o (IF state.prefix = "" THEN "hidden" ELSE "Hidden")
        /\ strategy = IF state.hiddenProp \in doc.props THEN "modern"
                      ELSE IF "addEventListener" \in doc.props THEN "focus-blur"
                      ELSE "focus-blur-ie"

C20_Step ==
    /\ strategy' = strategy
    /\ \A i \in 1..Len(hostCalls') :
           hostCalls'[i] \in Range(AddCalls) \cup Range(RemoveCalls)
    /\ op' = "start" => hostCalls' \in {<<>>, AddCalls}
    /\ op' \in {"pause", "destroy"} => hostCalls' \in {<<>>, RemoveCalls}

C20_Strategy == [](C20_Chosen) /\ [][C20_Step]_vars

\* start() attached the listener set of the strategy chosen at construction
\* to a document that would now be given another strategy
C20_Witness ==
    /\ ~hasError(state)
    /\ op = "start"
    /\ ret = "true"
    /\ hostCalls = AddCalls
    /\ hostCalls # <<>>
    /\ determineStrategy(state, doc) # strategy

(***************************************************************************)
(* C21.  Once findPrefix has returned a value the cache holds it, and      *)
(* until resetPrefixCache is called every findPrefix call, made directly   *)
(* or by a construction, returns that value whatever document it is given, *)
(* without probing the document and without writing the cache; the cache   *)
(* is written at most once between resets.                                 *)
(***************************************************************************)
C21_Cache ==
    /\ prefixLog.writes <= 1
    /\ cachedPrefix = Null <=> prefixLog.writes = 0
    /\ op = "findPrefix" => ret = cachedPrefix

C21_Step ==
    /\ (op' \in {"findPrefix", "construct"} /\ cachedPrefix # Null) =>
           /\ cachedPrefix' = cachedPrefix
           /\ ~prefixLog'.probed
           /\ prefixLog'.writes = prefixLog.writes
           /\ op' = "findPrefix" => ret' = cachedPrefix
           /\ (op' = "construct" /\ ~hasError(state')) => state'.prefix = cachedPrefix
    /\ (cachedPrefix # Null /\ cachedPrefix' # cachedPrefix) => op' = "resetPrefixCache"

C21_Cached == [](C21_Cache) /\ [][C21_Step]_vars

\* findPrefix returned the cached 'webkit' for a document that has no
\* webkitHidden property
C21_Witness ==
    /\ op = "findPrefix"
    /\ ret = "webkit"
    /\ ~prefixLog.probed
    /\ doc.present
    /\ "webkitHidden" \notin doc.props

(***************************************************************************)
(* C22.  With an empty cache findPrefix(d) returns the first prefix p, in  *)
(* the order webkit, ms, o, moz, khtml, such that d has a property         *)
(* p + 'Hidden', and the empty string when there is none; a construction   *)
(* derives from the prefix the names prefix + 'Hidden' and prefix +        *)
(* 'VisibilityState', or 'hidden' and 'visibilityState' when it is empty.  *)
(***************************************************************************)
C22_Order == <<"webkit", "ms", "o", "moz", "khtml">>

C22_First(props) ==
    LET matches == {i \in 1..Len(C22_Order) : (C22_Order[i] \o "Hidden") \in props} IN
    IF matches = {} THEN ""
    ELSE C22_Order[CHOOSE i \in matches : \A j \in matches : i <= j]

C22_Names ==
    ~hasError(state) =>
        /\ state.hiddenProp =
               IF state.prefix = "" THEN "hidden" ELSE state.prefix \o "Hidden"
        /\ state.visibilityProp =
               IF state.prefix = "" THEN "visibilityState"
               ELSE state.prefix \o "VisibilityState"

C22_Step ==
    /\ (op' = "findPrefix" /\ cachedPrefix = Null) => ret' = C22_First(doc.props)
    /\ (op' = "construct" /\ cachedPrefix = Null /\ ~hasError(state')) =>
           state'.prefix = C22_First(doc'.props)

C22_Probe == [](C22_Names) /\ [][C22_Step]_vars

\* a tracker was constructed with an empty cache against a document that
\* has msHidden and khtmlHidden
C22_Witness ==
    /\ op = "construct"
    /\ prefixLog.probed
    /\ "msHidden" \in doc.props /\ "khtmlHidden" \in doc.props
    /\ state.prefix = "ms"
    /\ state.hiddenProp = "msHidden"
    /\ state.visibilityProp = "msVisibilityState"

(***************************************************************************)
(* The number of times x occurs in seq; seq without its element at i.      *)
(***************************************************************************)
Count(seq, x) == Cardinality({i \in 1..Len(seq) : seq[i] = x})

Without(seq, i) == SubSeq(seq, 1, i - 1) \o SubSeq(seq, i + 1, Len(seq))

\* the callbacks registered for an event
Registrations(event) == IF event \in DOMAIN events THEN events[event] ELSE <<>>

(***************************************************************************)
(* C23.  A callback subscribed k times for an event is invoked k times by  *)
(* each emit of that event; off(event, callback) removes the first         *)
(* matching registration and only that one, and when there is none, or the *)
(* event is unknown, it changes nothing; off never raises.  The first half *)
(* fails on the code when a callback raises: emit stops there.             *)
(***************************************************************************)
C23_Step ==
    /\ op' = "emit" =>
           \A l \in Listeners \cup Raising \cup Unsubscribing :
               Count(InvokedListeners(invoked'), l) =
                   Count(Registrations(published'[Len(published')].event), l)
    /\ op' = "off" =>
           /\ ret' = "void"
           /\ \/ events' = events
              \/ \E e \in DOMAIN events : \E i \in 1..Len(events[e]) :
                     /\ \A j \in 1..(i - 1) : events[e][j] # events[e][i]
                     /\ events' = [events EXCEPT ![e] = Without(@, i)]

C23_Duplicates == [][C23_Step]_vars

(***************************************************************************)
(* C24.  emit(event, args) invokes the callbacks registered under event,   *)
(* each once per registration, in registration order and with args; no     *)
(* callback registered under another name is invoked and an emit of an     *)
(* event without callbacks does nothing.  It fails on the code when a      *)
(* callback raises: those registered after it are not invoked.             *)
(***************************************************************************)
C24_Step ==
    op' = "emit" =>
        LET e == published'[Len(published')] IN
        /\ InvokedListeners(invoked') = Registrations(e.event)
        /\ \A i \in 1..Len(invoked') : invoked'[i].args = e.args

C24_Publish == [][C24_Step]_vars

C26_Exclusive ==
    /\ ~(state.started /\ state.isPaused)
    /\ state.isPaused => ~lifecycle.destroyed /\ ~hasError(state)

C26_Step ==
    /\ (state'.isPaused /\ ~state.isPaused) =>
           /\ state.started /\ ~state'.started
           /\ hostCalls' = RemoveCalls
           /\ \/ op' = "pause"
              \/ op' \in HostOps /\ \E i \in 1..Len(invoked') : invoked'[i].listener = "g"
    /\ (state'.isPaused /\ state.isPaused) =>
           /\ state'.started = state.started
           /\ hostCalls' = <<>>
    /\ (~state'.isPaused /\ state.isPaused) => op' \in {"start", "destroy"}
    /\ (op' = "start" /\ ~hasError(state)) => state'.started /\ ~state'.isPaused
    /\ op' = "destroy" => ~state'.started /\ ~state'.isPaused
    /\ op' = "pause" => state'.isPaused = (state.started \/ state.isPaused)

C26_Flags == [](C26_Exclusive) /\ [][C26_Step]_vars

\* pause() paused a started tracker that had counted a transition
C26_Witness ==
    /\ op = "pause"
    /\ state.isPaused
    /\ ~state.started
    /\ hostCalls = RemoveCalls
    /\ native = <<>>
    /\ state.stateChangeCount >= 1

(***************************************************************************)
(* C27.  start(), pause(), destroy() and on() never change the value, the  *)
(* transition count or the time of the last transition, whether called     *)
(* directly or from a subscriber callback, and start(), pause() and        *)
(* destroy() never add or remove a subscriber; the value changes only in   *)
(* updateState, run by a native handler, and only to a value that differs  *)
(* from the previous one, together with the count and the time.            *)
(***************************************************************************)
C27_Step ==
    /\ op' \in {"start", "pause", "destroy", "on"} => Tracked(state') = Tracked(state)
    /\ op' \in {"start", "pause", "destroy"} => events' = events
    /\ op' \in HostOps => events' = events
    /\ \A i \in 1..Len(invoked') :
           Tracked(state') = <<invoked'[i].value, invoked'[i].count, invoked'[i].time>>
    /\ Tracked(state') # Tracked(state) =>
           /\ op' \in HostOps
           /\ handled' = <<state'.value>>
           /\ state'.value # state.value
           /\ state'.stateChangeCount = state.stateChangeCount + 1
           /\ state'.lastStateChangeTime = now

C27_Frame == [][C27_Step]_vars

\* destroy(), called by a subscriber during a publish, left the transition
\* as it was counted
C27_Witness ==
    /\ op \in HostOps
    /\ lifecycle.destroyed
    /\ invoked # <<>>
    /\ state.stateChangeCount = 2
    /\ state.value = "hidden"

(***************************************************************************)
(* C28.  Whenever an error-free tracker of the modern strategy is started, *)
(* getState() is the host's current visibility value (every change of the  *)
(* host's visibility fires its event in the same step, so no signal is     *)
(* ever undelivered), in particular right after a start() that resumes a   *)
(* tracker whose host changed while it was paused or destroyed.  The code  *)
(* does not read the host's value in start().  Stated of hosts whose       *)
(* visibility value is 'visible' or 'hidden'.                              *)
(***************************************************************************)
C28_InSync ==
    (/\ strategy = "modern" /\ ~hasError(state) /\ state.started
     /\ Read(doc, state.visibilityProp) \in {"visible", "hidden"}) =>
        getState(state) = Read(doc, state.visibilityProp)

(***************************************************************************)
(* C29.  When a subscriber is invoked for a transition to v the tracker    *)
(* has already recorded it: inside the callback getState() is v,           *)
(* getStateChangeCount() is one more than before the signal and            *)
(* getLastStateChangeTime() is the time of this transition.                *)
(***************************************************************************)
C29_Step ==
    \A i \in 1..Len(invoked') :
        /\ op' \in HostOps
        /\ invoked'[i].args = <<SignalValue>>
        /\ invoked'[i].value = SignalValue
        /\ invoked'[i].count = state.stateChangeCount + 1
        /\ invoked'[i].time = now'

C29_Recorded == [][C29_Step]_vars

\* two subscribers were invoked for the second transition, made at time 1
C29_Witness ==
    /\ op \in HostOps
    /\ Len(invoked) = 2
    /\ invoked[2].args = <<"hidden">>
    /\ invoked[2].value = "hidden"
    /\ invoked[2].count = 2
    /\ invoked[2].time = 1

C30_Step ==
    invoked' # <<>> =>
        /\ state.started /\ ~state.isPaused
        /\ InvokedListeners(invoked') = SubSeq(Subscribers, 1, Len(invoked'))
        /\ Len(invoked') < Len(Subscribers) =>
               invoked'[Len(invoked')].listener \in Raising
        /\ \A i \in 1..Len(invoked') :
               IF \E j \in 1..(i - 1) : invoked'[j].listener = "g"
               THEN /\ ~invoked'[i].started
                    /\ invoked'[i].isPaused = state'.isPaused
                    /\ ~state'.started
               ELSE invoked'[i].started /\ ~invoked'[i].isPaused

C31_Step ==
    op' = "late" =>
        /\ state' = state
        /\ published' = published
        /\ invoked' = <<>>

C31_Discarded == [][C31_Step]_vars

\* the same of pause() alone
C31_AfterPause == [][(op' = "late" /\ state.isPaused) => C31_Step]_vars

(***************************************************************************)
(* C32.  Every callback registered for an event when an emit of it begins, *)
(* and of which no registration is removed during the emit, is invoked by  *)
(* that emit once per registration, also when a callback unsubscribes      *)
(* itself or another callback while the emit runs.  Stated of the emits no *)
(* callback raises in.  On the code forEach goes by index over the array   *)
(* that off splices, so the callback after a removed one is skipped.       *)
(***************************************************************************)
C32_Step ==
    (op' = "emit" /\ ret' # "throw") =>
        LET e == published'[Len(published')].event
            after == IF e \in DOMAIN events' THEN events'[e] ELSE <<>>
        IN \A l \in Listeners \cup Raising \cup Unsubscribing :
               Count(after, l) = Count(Registrations(e), l)
                   => Count(InvokedListeners(invoked'), l) = Count(Registrations(e), l)

C32_Unsubscribing == [][C32_Step]_vars

(***************************************************************************)
(* C33.  Two trackers share no lifecycle or transition state: start(),     *)
(* pause(), destroy() and on() of one never change the other's started,    *)
(* isPaused, value, transition count, last transition time, attached       *)
(* native listeners or subscribers, also when both are built on the same   *)
(* window and document.                                                    *)
(***************************************************************************)
C33_Step ==
    /\ op' \in {"start", "pause", "destroy", "on"} =>
           /\ peer' = peer
           /\ ListenersOf("B", native') = ListenersOf("B", native)
    /\ op' \in {"peer.start", "peer.pause", "peer.destroy", "peer.on"} =>
           /\ state' = state
           /\ events' = events
           /\ ListenersOf("A", native') = ListenersOf("A", native)

C33_Separate == [][C33_Step]_vars

\* A was destroyed while B, started, subscribed to and having counted a
\* transition, stays as it was
C33_Witness ==
    /\ op = "destroy"
    /\ hostCalls # <<>>
    /\ ~state.started
    /\ peer.state.started
    /\ peer.state.stateChangeCount >= 1
    /\ peer.events # <<>>
    /\ events # <<>>
    /\ Len(ListenersOf("B", native)) >= 1
    /\ ListenersOf("A", native) = <<>>

(***************************************************************************)
(* C34.  The strategy, the property names and the seeded value of a        *)
(* tracker depend only on the window and document it is constructed with:  *)
(* they are what a construction with an empty prefix cache gives, whatever *)
(* documents earlier trackers were constructed against, and a document     *)
(* with the unprefixed 'hidden' property gets the modern strategy.  On the *)
(* code the prefix found for an earlier document is reused.                *)
(***************************************************************************)
C34_Independent ==
    op = "construct" =>
        LET t == Construct(win, doc, opts.update, Null) IN
        /\ strategy = t.strategy
        /\ state.prefix = t.state.prefix
        /\ state.hiddenProp = t.state.hiddenProp
        /\ state.visibilityProp = t.state.visibilityProp
        /\ state.value = t.state.value
        /\ (~hasError(state) /\ In("hidden", doc)) => strategy = "modern"

(***************************************************************************)
(* C35.  Under the modern strategy the seeded value is the value of the    *)
(* document's visibility property, or 'visible' when that read is empty or *)
(* falsy, also when the property is absent; the focus query seeds the      *)
(* value only when the strategy is not modern: 'visible' when the host     *)
(* reports focus, 'hidden' otherwise, and 'visible' when the document has  *)
(* no focus query.  On the code a modern document without the visibility   *)
(* property is seeded from the focus query.                                *)
(***************************************************************************)
C35_Seed ==
    (op = "construct" /\ ~hasError(state)) =>
        getState(state) =
            IF strategy = "modern"
            THEN IF Falsy(Read(doc, state.visibilityProp)) THEN "visible"
                 ELSE Read(doc, state.visibilityProp)
            ELSE IF In("hasFocus", doc)
                 THEN IF doc.focused THEN "visible" ELSE "hidden"
                 ELSE "visible"

\* the same of the documents that have the visibility property whenever they
\* have the hidden property
C35_WithProperty ==
    (In(state.hiddenProp, doc) => In(state.visibilityProp, doc)) => C35_Seed

(***************************************************************************)
(* C36.  getState() and every value passed to a subscriber is a non-empty  *)
(* state string at all times: an empty or undefined read of the document's *)
(* visibility property, at construction or when a visibilitychange signal  *)
(* is handled, never becomes the value.  On the code onChange passes the   *)
(* read to updateState as it is.                                           *)
(***************************************************************************)
C36_NonEmpty ==
    /\ ~Falsy(getState(state))
    /\ \A i \in 1..Len(published) : ~Falsy(published[i].args[1])
    /\ \A i \in 1..Len(invoked) : ~Falsy(invoked[i].args[1])

\* the same of the state right after construction
C36_AtConstruction == op = "construct" => ~Falsy(getState(state))

(***************************************************************************)
(* C37.  Under the focus-blur and focus-blur-ie strategies a focus signal  *)
(* is passed to updateState as 'visible' and a blur signal as 'hidden', so *)
(* every published value and every value reached by a transition is        *)
(* 'visible' or 'hidden', and the second of two consecutive focus signals  *)
(* (or blur signals) makes no transition.                                  *)
(***************************************************************************)
FocusStrategies == {"focus-blur", "focus-blur-ie"}

C37_Values ==
    strategy \in FocusStrategies =>
        /\ \A i \in 1..Len(published) : published[i].args[1] \in {"visible", "hidden"}
        /\ state.stateChangeCount > 0 => state.value \in {"visible", "hidden"}

C37_Step ==
    strategy \in FocusStrategies =>
        /\ (op' = "focus" /\ state.started) => handled' = <<"visible">>
        /\ (op' = "blur" /\ state.started) => handled' = <<"hidden">>
        /\ (op' = "focus" /\ handled' # <<>> /\ ~state.isPaused) => state'.value = "visible"
        /\ (op' = "blur" /\ handled' # <<>> /\ ~state.isPaused) => state'.value = "hidden"
        /\ (op' \in {"focus", "blur"} /\ op' = op) =>
               /\ published' = published
               /\ Tracked(state') = Tracked(state)

C37_Normalized == [](C37_Values) /\ [][C37_Step]_vars

\* a focus after a blur made the second transition of a legacy host
C37_Witness ==
    /\ strategy = "focus-blur-ie"
    /\ op = "focus"
    /\ handled = <<"visible">>
    /\ state.stateChangeCount = 2
    /\ Len(published) = 2
    /\ published[1].args = <<"hidden">>
    /\ published[2].args = <<"visible">>

(***************************************************************************)
(* C38.  In every reachable state lastStateChangeTime is null exactly when *)
(* stateChangeCount is 0.                                                  *)
(***************************************************************************)
C38_NullTime ==
    (getLastStateChangeTime(state) = NullTime) <=> (getStateChangeCount(state) = 0)

\* a tracker that counted two transitions, the last at time 1, was destroyed
C38_Witness ==
    /\ op = "destroy"
    /\ lifecycle.destroyed
    /\ getStateChangeCount(state) = 2
    /\ getLastStateChangeTime(state) = 1

(***************************************************************************)
(* C39.  When the window or the document is unavailable at construction    *)
(* nothing more is probed: the prefix and both property names stay empty,  *)
(* the prefix cache is not written and the strategy stays empty, also when *)
(* the document is present and only the window is missing.  On the code    *)
(* determineStrategy runs all the same and resolves a strategy from the    *)
(* document.                                                               *)
(***************************************************************************)
C39_Names ==
    hasError(state) =>
        /\ state.prefix = ""
        /\ state.hiddenProp = ""
        /\ state.visibilityProp = ""
        /\ op = "construct" => ~prefixLog.probed

C39_Step ==
    (op' = "construct" /\ hasError(state')) =>
        /\ cachedPrefix' = cachedPrefix
        /\ prefixLog'.writes = prefixLog.writes

C39_Unresolved ==
    /\ [](C39_Names /\ (hasError(state) => strategy = ""))
    /\ [][C39_Step]_vars

\* the same without the strategy
C39_NoProbing == [](C39_Names) /\ [][C39_Step]_vars

====
